---- MODULE Spec2Model ----
(***************************************************************************)
(* State-machine model of src/nba2k17_mitm_proxy.js.  The file holds two   *)
(* proxies: the redirecting MITM proxy (lines 1-200, "mitm") and the       *)
(* enhanced pass-through proxy (lines 202-659, "passthrough").  A run of   *)
(* the model is one process of one of the two, fixed in Init.              *)
(*                                                                         *)
(* Spec is the request handling of the process; TunnelLive the CONNECT     *)
(* sessions under the event loop's fairness; ShutdownLive the HTTP         *)
(* requests with the SIGINT handler; SanitizeSpec the logger's sanitizers  *)
(* applied to all records.                                                 *)
(*                                                                         *)
(* Strings are sequences of atoms (pieces of text); String.includes is     *)
(* contiguous sub-sequence containment, String.split(':') cuts at the ":"  *)
(* atom and template literals are concatenation.                           *)
(***************************************************************************)
EXTENDS Integers, Sequences, FiniteSets, TLC

VARIABLES program, config, requestCounter, issued, proc, http, tunnel, san

vars == <<program, config, requestCounter, issued, proc, http, tunnel, san>>

\* an absent port text (null / undefined)
Null == "null"
\* an absent string (null, undefined or ''): all are falsy for `||`
NoHost == <<>>
\* undefined, where a SERVER_ENDPOINTS entry is expected
NoConfig == [host |-> <<>>, port |-> 0, protocol |-> "none"]

(* ------------------------------ bounds --------------------------------- *)
\* number of requests (HTTP or CONNECT) one run accepts
MaxRequests == 2
\* number of times the sanitizers are applied to one record
MaxApplications == 2

(* ------------------------- program constants --------------------------- *)
LOCAL_SERVER_PORT == 49767
RealPort == 17217
DefaultHttpPort == 80
DefaultHttpsPort == 443

LOCAL_SERVER_HOST == <<"127.0.0.1">>

\* the default node's http.request gives options.hostname when it is null
NodeDefaultHost == <<"localhost">>

D_ws == <<"nba2k17-", "ws", ".", "2ksports.com">>
D_nbaservices == <<"nba2k17-", "services", ".", "2ksports.com">>
D_api == <<"api", ".", "2ksports.com">>
D_services == <<"services", ".", "2ksports.com">>
D_2k == <<"2ksports.com">>

\* INTERCEPT_DOMAINS of the program that runs (an ordered list)
INTERCEPT_DOMAINS(prog) ==
    IF prog = "mitm"
    THEN <<D_ws, D_nbaservices, D_api, D_services, D_2k>>
    ELSE <<D_ws, D_nbaservices, D_api, D_services>>

\* SERVER_ENDPOINTS: exact hostname -> { host, port, protocol }
EndpointKeys == {D_ws, D_nbaservices, D_api, D_services}

\* a registry that answers for every hostname it is asked
SERVER_ENDPOINTS_AnyHost(hostname) ==
    [host |-> hostname, port |-> RealPort, protocol |-> "https"]

SERVER_ENDPOINTS(hostname) ==
    IF hostname \in EndpointKeys
    THEN [host |-> hostname, port |-> RealPort, protocol |-> "https"]
    ELSE NoConfig

(* ----------------------------- strings --------------------------------- *)
\* String.prototype.includes
Includes(s, d) ==
    \E i \in 1..(Len(s) - Len(d) + 1) : SubSeq(s, i, i + Len(d) - 1) = d

\* position of the first ":" atom of s, 0 when there is none
FirstColon(s) ==
    IF \E i \in 1..Len(s) : s[i] = ":"
    THEN CHOOSE i \in 1..Len(s) : s[i] = ":" /\ \A j \in 1..(i - 1) : s[j] # ":"
    ELSE 0

\* parseInt of one atom; NaN is 0 here, which `|| default` treats alike
ParseInt(a) ==
    CASE a = "443" -> 443
      [] a = "80" -> 80
      [] a = "8080" -> 8080
      [] a = "8443" -> 8443
      [] OTHER -> 0

\* number -> its decimal text, as a template literal prints it
PortText(n) ==
    CASE n = 443 -> "443"
      [] n = 80 -> "80"
      [] n = 8080 -> "8080"
      [] n = 8443 -> "8443"
      [] n = 17217 -> "17217"
      [] n = 49767 -> "49767"
      [] OTHER -> "?"

\* `${host}:${port}`
HostPort(host, port) == host \o <<":", PortText(port)>>

\* INTERCEPT_DOMAINS.some(domain => hostname.includes(domain))
IsIntercept(prog, hostname) ==
    \E k \in 1..Len(INTERCEPT_DOMAINS(prog)) :
        Includes(hostname, INTERCEPT_DOMAINS(prog)[k])

(* --------------------------- request parsing --------------------------- *)
PathAtoms == {"/x", "/user/login"}

\* index of the first path atom of u (Len(u) + 1 when there is none)
PathStart(u) ==
    IF \E i \in 1..Len(u) : u[i] \in PathAtoms
    THEN CHOOSE i \in 1..Len(u) :
            u[i] \in PathAtoms /\ \A j \in 1..(i - 1) : u[j] \notin PathAtoms
    ELSE Len(u) + 1

\* url.parse(req.url): { hostname, port, path }; port stays text, as in node
UrlParse(u) ==
    IF Len(u) > 0 /\ u[1] = "http://"
    THEN LET p == PathStart(u)
             auth == SubSeq(u, 2, p - 1)
             c == FirstColon(auth)
         IN  [hostname |-> IF c = 0 THEN auth ELSE SubSeq(auth, 1, c - 1),
              port |-> IF c = 0 \/ c = Len(auth) THEN Null ELSE auth[c + 1],
              path |-> SubSeq(u, p, Len(u))]
    ELSE [hostname |-> NoHost, port |-> Null, path |-> u]

\* req.url.split(':') of a CONNECT request: [hostname, port]
SplitColon(u) ==
    LET c == FirstColon(u)
    IN  [hostname |-> IF c = 0 THEN u ELSE SubSeq(u, 1, c - 1),
         port |-> IF c = 0 \/ c = Len(u) THEN Null ELSE u[c + 1]]

\* parseInt(port) || 443
ConnectPort(portText) ==
    IF portText = Null \/ ParseInt(portText) = 0
    THEN DefaultHttpsPort
    ELSE ParseInt(portText)

\* targetUrl.port || 80
HttpPort(portText) ==
    IF portText = Null THEN DefaultHttpPort ELSE ParseInt(portText)

(* ------------------------------ headers -------------------------------- *)
EmptyHeaders == [k \in {} |-> NoHost]

\* { ...headers, [name]: value }
WithHeader(headers, name, value) == (name :> value) @@ headers

\* req.headers of a request whose Host header is hh (absent when Null)
Credentials ==
    ("authorization" :> <<"Bearer t">>) @@ ("cookie" :> <<"sid=1">>)
        @@ ("x-session-token" :> <<"tok">>)

ClientHeaders(hh) ==
    IF hh = NoHost THEN Credentials ELSE WithHeader(Credentials, "host", hh)

\* headers[name], or `absent` when the header is not there
HeaderOf(headers, name, absent) ==
    IF name \in DOMAIN headers THEN headers[name] ELSE absent

(* --------------------------- ProxyLogger ------------------------------- *)
\* an id built from the timestamp alone
RequestIdOfTimestamp(counter, now) == <<"REQ", 0, now>>

\* `REQ-${++this.requestCounter}-${Date.now()}` with the counter already bumped
RequestIdOf(counter, now) == <<"REQ", counter, now>>

(* ----------------------------- JS values ------------------------------- *)
\* A JS value as the logger sees it: t is its type; s its text (a string's
\* characters, a number's or boolean's literal); o its properties when it is
\* an object, as a map from the path of keys of every leaf to the leaf's text.
EmptyObject == [path \in {} |-> ""]

JsNull == [t |-> "null", s |-> <<>>, o |-> EmptyObject]
JsString(text) == [t |-> "string", s |-> text, o |-> EmptyObject]
JsNumber(literal) == [t |-> "number", s |-> <<literal>>, o |-> EmptyObject]
JsBoolean(literal) == [t |-> "boolean", s |-> <<literal>>, o |-> EmptyObject]
JsObject(leaves) == [t |-> "object", s |-> <<>>, o |-> leaves]

\* !value
Falsy(v) ==
    \/ v.t = "null"
    \/ v.t = "string" /\ v.s = <<>>
    \/ v.t = "number" /\ v.s = <<"0">>
    \/ v.t = "boolean" /\ v.s = <<"false">>

\* the request body of a login: a top-level token, a nested password
LoginBody == <<"{\"token\":\"t\",\"user\":{\"password\":\"p\"}}">>

\* JSON.parse(text) of the texts that are JSON: the value, else a SyntaxError
JsonTexts ==
    { <<"{\"vc\":500}">>, <<"{ \"vc\": 500 }">>, LoginBody,
      <<"{\"password\":\"p\",\"sessionToken\":\"s\",\"name\":\"n\"}">>,
      <<"0">>, <<"1">>, <<"false">>, <<"true">>, <<"null">>,
      <<"\"\"">>, <<"\"1\"">>, <<"\"abc\"">> }

JsonParse(text) ==
    CASE text \in {<<"{\"vc\":500}">>, <<"{ \"vc\": 500 }">>} ->
            JsObject(<<"vc">> :> "500")
      [] text = LoginBody ->
            JsObject((<<"token">> :> "t") @@ (<<"user", "password">> :> "p"))
      [] text = <<"{\"password\":\"p\",\"sessionToken\":\"s\",\"name\":\"n\"}">> ->
            JsObject((<<"password">> :> "p") @@ (<<"sessionToken">> :> "s")
                        @@ (<<"name">> :> "n"))
      [] text = <<"0">> -> JsNumber("0")
      [] text = <<"1">> -> JsNumber("1")
      [] text = <<"false">> -> JsBoolean("false")
      [] text = <<"true">> -> JsBoolean("true")
      [] text = <<"\"\"">> -> JsString(<<>>)
      [] text = <<"\"1\"">> -> JsString(<<"1">>)
      [] text = <<"\"abc\"">> -> JsString(<<"abc">>)
      [] text = <<"null">> -> JsNull

\* String(value), the text JSON.parse is given for a value that is no string
ToText(v) ==
    CASE v.t = "string" -> v.s
      [] v.t \in {"number", "boolean"} -> v.s
      [] v.t = "null" -> <<"null">>
      [] OTHER -> <<"[object Object]">>

\* the number of characters of one piece of text: the filler pieces are 100
\* characters long, so that a cut at 200 falls between two pieces
FillerAtoms == {"a x100", "b x100", "password=p x100"}

AtomLength(a) ==
    CASE a \in FillerAtoms -> 100
      [] a = "..." -> 3
      [] OTHER -> 10

RECURSIVE TextLength(_)
TextLength(text) ==
    IF text = <<>> THEN 0 ELSE AtomLength(Head(text)) + TextLength(Tail(text))

\* text.substring(0, n); a cut inside a piece leaves the piece "<cut>"
RECURSIVE Substring(_, _)
Substring(text, n) ==
    IF text = <<>> \/ n <= 0 THEN <<>>
    ELSE IF AtomLength(Head(text)) <= n
    THEN <<Head(text)>> \o Substring(Tail(text), n - AtomLength(Head(text)))
    ELSE <<"<cut>">>

(* --------------------- ProxyLogger: sanitization ----------------------- *)
SensitiveHeaders == {"authorization", "cookie", "x-session-token"}
SensitiveKeys == {"password", "token", "sessionToken"}

\* sanitizeHeaders: a copy without the three headers
sanitizeHeaders(headers) ==
    [name \in (DOMAIN headers) \ SensitiveHeaders |-> headers[name]]

\* delete parsed.password; delete parsed.token; delete parsed.sessionToken:
\* the properties of the object itself go, with all that is below them
DeleteKeys(leaves) ==
    [path \in {q \in DOMAIN leaves : q[1] \notin SensitiveKeys} |-> leaves[path]]

\* the catch branch of sanitizeBody: body.length is undefined for a value
\* that is no string, and undefined > 200 is false
Truncated(body) ==
    IF body.t = "string" /\ TextLength(body.s) > 200
    THEN JsString(Substring(body.s, 200) \o <<"...">>)
    ELSE body

\* sanitizeBody; `delete` on a property of null throws a TypeError, which
\* the catch takes like the SyntaxError of JSON.parse
sanitizeBody(body) ==
    IF Falsy(body) THEN JsNull
    ELSE IF ToText(body) \in JsonTexts
    THEN LET parsed == JsonParse(ToText(body))
         IN  CASE parsed.t = "null" -> Truncated(body)
               [] parsed.t = "object" -> JsObject(DeleteKeys(parsed.o))
               [] OTHER -> parsed
    ELSE Truncated(body)

\* the data logRequest / logResponse hand to log()
LogRecord(level, headers, body) ==
    [level |-> level,
     headers |-> sanitizeHeaders(headers),
     body |-> sanitizeBody(JsString(body))]

(* ------------------------------- bodies -------------------------------- *)
\* a body is a sequence of text pieces; '' is the empty sequence
JsonBodies == {<<"{\"vc\":500}">>, <<"{ \"vc\": 500 }">>}

\* JSON.stringify(JSON.parse(body)) of a body that parses
JsonRoundTrip(body) ==
    IF body = <<"{ \"vc\": 500 }">> THEN <<"{\"vc\":500}">> ELSE body

(* ------------------------- RequestModifier ----------------------------- *)
\* RequestModifier.modifyRequest
modifyRequest(requestId, path, headers, body) ==
    IF ~config.ENABLE_MODIFICATIONS
    THEN [path |-> path, headers |-> headers, body |-> body]
    ELSE [path |-> path,
          headers |-> WithHeader(WithHeader(headers, "X-Proxy-Request-ID", requestId),
                                 "X-Proxy-Timestamp", <<"iso-time">>),
          body |-> body]

\* RequestModifier.modifyResponse
modifyResponse(requestId, statusCode, headers, body) ==
    IF ~config.ENABLE_MODIFICATIONS
    THEN [statusCode |-> statusCode, headers |-> headers, body |-> body]
    ELSE [statusCode |-> statusCode,
          headers |-> WithHeader(headers, "X-Proxy-Response-ID", requestId),
          body |-> IF body \in JsonBodies THEN JsonRoundTrip(body) ELSE body]

(* -------------------------- request options ---------------------------- *)
\* forwardToRealServer with the spread after the host entry: the client's
\* Host header wins
RealServerOptionsClientHost(serverConfig, path, headers) ==
    [hostname |-> serverConfig.host,
     port |-> serverConfig.port,
     path |-> path,
     headers |-> headers @@
                 ("host" :> HostPort(serverConfig.host, serverConfig.port)),
     protocol |-> serverConfig.protocol,
     timeout |-> TRUE]

\* options of forwardToRealServer
RealServerOptions(serverConfig, path, headers) ==
    [hostname |-> serverConfig.host,
     port |-> serverConfig.port,
     path |-> path,
     headers |-> WithHeader(headers, "host",
                            HostPort(serverConfig.host, serverConfig.port)),
     protocol |-> serverConfig.protocol,
     timeout |-> TRUE]

\* options of forwardToLocalServer
LocalServerOptions(path, headers) ==
    [hostname |-> <<"127.0.0.1">>,
     port |-> LOCAL_SERVER_PORT,
     path |-> path,
     headers |-> WithHeader(headers, "host",
                            HostPort(<<"127.0.0.1">>, LOCAL_SERVER_PORT)),
     protocol |-> "http",
     timeout |-> FALSE]

\* options of the redirect to the local server (mitm proxy, HTTP and HTTPS)
RedirectOptions(path, headers) ==
    [hostname |-> LOCAL_SERVER_HOST,
     port |-> LOCAL_SERVER_PORT,
     path |-> path,
     headers |-> WithHeader(headers, "host",
                            HostPort(LOCAL_SERVER_HOST, LOCAL_SERVER_PORT)),
     protocol |-> "http",
     timeout |-> FALSE]

\* options of forwardNormalRequest and of the mitm proxy's plain forward
NormalOptions(targetUrl, headers) ==
    [hostname |-> targetUrl.hostname,
     port |-> HttpPort(targetUrl.port),
     path |-> targetUrl.path,
     headers |-> headers,
     protocol |-> "http",
     timeout |-> FALSE]

\* http.request(options): the call in flight.  kind is "real", "local",
\* "redirect" or "normal"; node connects to localhost when hostname is null.
NewCall(kind, options, args) ==
    [kind |-> kind,
     hostname |-> IF options.hostname = NoHost THEN NodeDefaultHost
                  ELSE options.hostname,
     port |-> options.port,
     protocol |-> options.protocol,
     headers |-> options.headers,
     path |-> options.path,
     args |-> args,
     state |-> "pending",
     status |-> 0,
     responseBody |-> <<>>,
     err |-> "none",
     timedOut |-> FALSE]

(* --------------------------- client response --------------------------- *)
FreshResponse ==
    [headSent |-> FALSE, status |-> 0, headers |-> EmptyHeaders,
     body |-> <<>>, ended |-> FALSE]

\* res.writeHead(status, headers) on a response whose head is not yet sent
WriteHead(res, status, headers) ==
    [res EXCEPT !.headSent = TRUE, !.status = status, !.headers = headers]

\* res.end(body), and the end of a pipe into res
End(res, body) == [res EXCEPT !.body = @ \o body, !.ended = TRUE]

TextPlain == WithHeader(EmptyHeaders, "Content-Type", <<"text/plain">>)

IdleHttp ==
    [phase |-> "idle", url |-> <<>>, reqHeaders |-> EmptyHeaders,
     requestId |-> RequestIdOf(0, 0), hostname |-> NoHost,
     targetUrl |-> UrlParse(<<>>), serverConfig |-> NoConfig,
     clientRes |-> FreshResponse, clientAlive |-> TRUE, calls |-> <<>>,
     logged |-> <<>>, writesAfterClose |-> FALSE, requestBody |-> <<>>]

(* ------------------------------- inputs -------------------------------- *)
ExampleHost == <<"example", ".", "com">>

\* the body a streamed response ends with
StreamBodies == {<<"O", "K">>}

\* (req.url, Host header) of the plain-HTTP requests a client sends
HttpRequests ==
    { <<<<"http://">> \o D_api \o <<"/user/login">>, ExampleHost>>,
      <<<<"http://", "cdn", ".">> \o D_api \o <<"/x">>, <<"cdn", ".">> \o D_api>>,
      <<<<"/x">>, D_api \o <<":", "80">>>>,
      <<<<"http://", "store", ".", "2ksports.com", "/x">>, <<"store", ".", "2ksports.com">>>>,
      <<<<"http://">> \o ExampleHost \o <<"/x">>, ExampleHost>>,
      <<<<"http://">> \o ExampleHost \o <<":", "8080", "/x">>, ExampleHost \o <<":", "8080">>>>,
      <<<<"/x">>, ExampleHost>>,
      <<<<"/x">>, NoHost>> }

\* req.url of the CONNECT requests a client sends
ConnectUrls ==
    { D_api \o <<":", "443">>,
      <<"store", ".", "2ksports.com", ":", "443">>,
      ExampleHost \o <<":", "8443">>,
      ExampleHost }

\* the bytes that arrive together with a CONNECT request (`head`)
Heads == {<<>>, <<"client-hello">>}

RequestBodies == {<<>>, LoginBody}
ResponseBodies == JsonBodies \cup {<<"O", "K">>}

\* s is the beginning of some body of the set
IsPrefix(s, bodies) ==
    \E body \in bodies : Len(s) <= Len(body) /\ SubSeq(body, 1, Len(s)) = s

\* the chunks the 'data' events of a stream of these bodies deliver
Chunks(bodies) == UNION {{body[i] : i \in 1..Len(body)} : body \in bodies}
UpstreamStatuses == {200, 500}
UpstreamHeaders == WithHeader(EmptyHeaders, "content-type", <<"application/json">>)

\* err.message of a failure before the response / during the response
ConnectErrors == {"connect ECONNREFUSED"}
ResetError == "read ECONNRESET"
HangUp == "socket hang up"

\* Date.now() when an id is generated
Timestamps == {1000}

(* ---------------------- the HTTP request in flight --------------------- *)
\* the process runs its handlers: it is up, or closing after an interrupt
Alive == proc \in {"running", "closing"}

LastCall == http.calls[Len(http.calls)]

Active(kinds, states) ==
    /\ Alive
    /\ http.phase = "upstream"
    /\ LastCall.kind \in kinds
    /\ LastCall.state \in states

WithLast(h, c) == [h EXCEPT !.calls[Len(h.calls)] = c]

\* an exception thrown inside a handler: 'uncaughtException', the process exits
Crash == proc' = "exit1"

\* a handler reaches a write on the client response: it is recorded when the
\* client of the response has gone
Attempt(h) == [h EXCEPT !.writesAfterClose = @ \/ ~h.clientAlive]

\* writeHead(status, headers); end(body) of a handler, on the state h the
\* handler has reached: writeHead throws when the head was already sent
Respond(h, status, headers, body, phase) ==
    IF h.clientRes.headSent
    THEN /\ http' = Attempt(h)
         /\ Crash
    ELSE /\ http' = [Attempt(h) EXCEPT
                        !.clientRes = End(WriteHead(@, status, headers), body),
                        !.phase = phase]
         /\ UNCHANGED proc

\* the request as handleProxyRequest / the mitm handler first sees it
Incoming(url, hh, requestId) ==
    [IdleHttp EXCEPT !.url = url,
                     !.reqHeaders = ClientHeaders(hh),
                     !.requestId = requestId,
                     !.targetUrl = UrlParse(url),
                     !.hostname = IF UrlParse(url).hostname # NoHost
                                  THEN UrlParse(url).hostname
                                  ELSE hh]

\* forwardNormalRequest: the url is parsed again, the Host header is not used
forwardNormalRequest(h) ==
    [h EXCEPT !.phase = "upstream",
              !.calls = <<NewCall("normal",
                                  NormalOptions(UrlParse(h.url), h.reqHeaders),
                                  [path |-> UrlParse(h.url).path,
                                   headers |-> h.reqHeaders, body |-> <<>>])>>]

\* handleProxyRequest, up to the registration of the request's listeners
handleProxyRequest(url, hh, now) ==
    /\ program = "passthrough"
    /\ proc = "running"
    /\ http.phase \in {"idle", "done"}
    /\ requestCounter < MaxRequests
    /\ requestCounter' = requestCounter + 1
    /\ issued' = Append(issued, RequestIdOf(requestCounter + 1, now))
    /\ LET h == Incoming(url, hh, RequestIdOf(requestCounter + 1, now))
       IN  IF h.hostname = NoHost
           THEN \* hostname is undefined: hostname.includes throws a TypeError
                /\ http' = [h EXCEPT !.phase = "done"]
                /\ Crash
           ELSE IF IsIntercept(program, h.hostname)
           THEN IF SERVER_ENDPOINTS(h.hostname) = NoConfig
                THEN Respond(h, 502, TextPlain,
                             <<"Bad Gateway: Unknown 2K server">>, "done")
                ELSE /\ http' = [h EXCEPT !.phase = "collecting",
                                          !.serverConfig = SERVER_ENDPOINTS(h.hostname)]
                     /\ UNCHANGED proc
           ELSE /\ http' = forwardNormalRequest(h)
                /\ UNCHANGED proc
    /\ UNCHANGED <<san, program, config, tunnel>>

\* forwardToRealServer: the upstream call it issues
forwardToRealServer(h, modified) ==
    [h EXCEPT !.phase = "upstream",
              !.calls = <<NewCall("real",
                                  RealServerOptions(h.serverConfig, modified.path,
                                                    modified.headers),
                                  modified)>>]

\* req.on('data'): requestBody += chunk
ReqData(chunk) ==
    /\ Alive
    /\ http.phase = "collecting"
    /\ IsPrefix(Append(http.requestBody, chunk), RequestBodies)
    /\ http' = [http EXCEPT !.requestBody = Append(@, chunk)]
    /\ UNCHANGED <<san, program, config, requestCounter, issued, proc, tunnel>>

\* req.on('end'): the body is complete, the request is modified and forwarded
ReqEnd ==
    /\ Alive
    /\ http.phase = "collecting"
    /\ http.requestBody \in RequestBodies
    /\ http' = forwardToRealServer(
                   [http EXCEPT !.logged =
                        Append(@, LogRecord("REQUEST", http.reqHeaders,
                                            http.requestBody))],
                   modifyRequest(http.requestId, http.targetUrl.path,
                                 http.reqHeaders, http.requestBody))
    /\ UNCHANGED <<san, program, config, requestCounter, issued, proc, tunnel>>

\* req.on('error'): the client's request stream fails (the client is gone)
ReqError ==
    /\ Alive
    /\ http.phase \in {"collecting", "upstream"}
    /\ http.serverConfig # NoConfig
    /\ http.clientAlive
    /\ ~http.clientRes.ended
    /\ Respond([http EXCEPT !.clientAlive = FALSE], 500, EmptyHeaders,
               <<"Request Error">>,
               IF http.phase = "collecting" THEN "done" ELSE http.phase)
    /\ UNCHANGED <<san, program, config, requestCounter, issued, tunnel>>

\* the response callback of forwardToRealServer: the body is collected
RealResponse(status) ==
    /\ Active({"real"}, {"pending"})
    /\ http' = WithLast(http, [LastCall EXCEPT !.state = "responding",
                                               !.status = status])
    /\ UNCHANGED <<san, program, config, requestCounter, issued, proc, tunnel>>

\* a data handler that relays the chunk as it arrives, like a pipe
RealDataStreams(chunk) ==
    /\ Active({"real"}, {"responding"})
    /\ IsPrefix(Append(LastCall.responseBody, chunk), ResponseBodies)
    /\ http' = [WithLast(http, [LastCall EXCEPT !.responseBody = Append(@, chunk)])
                  EXCEPT !.clientRes =
                      [WriteHead(@, LastCall.status, UpstreamHeaders)
                          EXCEPT !.body = @ \o <<chunk>>]]
    /\ UNCHANGED <<san, program, config, requestCounter, issued, proc, tunnel>>

\* proxyRes.on('data') of forwardToRealServer: responseBody += chunk
RealData(chunk) ==
    /\ Active({"real"}, {"responding"})
    /\ IsPrefix(Append(LastCall.responseBody, chunk), ResponseBodies)
    /\ http' = WithLast(http, [LastCall EXCEPT !.responseBody = Append(@, chunk)])
    /\ UNCHANGED <<san, program, config, requestCounter, issued, proc, tunnel>>

\* proxyRes.on('end') of forwardToRealServer
RealEnd ==
    /\ Active({"real"}, {"responding"})
    /\ LastCall.responseBody \in ResponseBodies
    /\ LET body == LastCall.responseBody
           modified == modifyResponse(http.requestId, LastCall.status,
                                      UpstreamHeaders, body)
           h == [http EXCEPT !.logged =
                    Append(@, LogRecord("RESPONSE", UpstreamHeaders, body))]
       IN  Respond(WithLast(h, [LastCall EXCEPT !.state = "ended"]),
                   modified.statusCode, modified.headers, modified.body, "done")
    /\ UNCHANGED <<san, program, config, requestCounter, issued, tunnel>>

\* an error handler that falls back whatever the configuration says
FallsBackAlways == TRUE

\* CONFIG.FALLBACK_TO_LOCAL, as the error handler reads it
FallsBack == config.FALLBACK_TO_LOCAL

\* a fallback that issues the local request twice
FallbackCallsTwice(args) ==
    <<NewCall("local", LocalServerOptions(args.path, args.headers), args),
      NewCall("local", LocalServerOptions(args.path, args.headers), args)>>

\* the calls the fallback issues: one forwardToLocalServer
FallbackCalls(args) ==
    <<NewCall("local", LocalServerOptions(args.path, args.headers), args)>>

\* the error messages an upstream call can end with in its state
ErrorsIn(state) ==
    CASE state = "pending" -> ConnectErrors
      [] state = "responding" -> {ResetError}
      [] state = "hangup" -> {HangUp}
      [] OTHER -> {}

\* proxyReq.on('error') of forwardToRealServer
RealError(msg) ==
    /\ Active({"real"}, {"pending", "responding", "hangup"})
    /\ msg \in ErrorsIn(LastCall.state)
    /\ LET h == WithLast(http, [LastCall EXCEPT !.state = "failed", !.err = msg])
       IN  IF FallsBack
           THEN /\ http' = [h EXCEPT !.calls = @ \o FallbackCalls(LastCall.args)]
                /\ UNCHANGED proc
           ELSE Respond(h, 502, TextPlain, <<"Bad Gateway: ", msg>>, "done")
    /\ UNCHANGED <<san, program, config, requestCounter, issued, tunnel>>

\* a timeout handler that answers like the error handler
TimeoutAnswerBadGateway == [status |-> 502, body |-> <<"Bad Gateway: timeout">>]

\* what the timeout handler answers
TimeoutAnswer == [status |-> 504, body |-> <<"Gateway Timeout">>]

\* proxyReq.on('timeout'): proxyReq.destroy(), then 504.  destroy() before
\* the response makes node emit 'error' (socket hang up) on proxyReq later.
RealTimeout ==
    /\ Active({"real"}, {"pending", "responding"})
    /\ LET after == IF LastCall.state = "pending" THEN "hangup" ELSE "aborted"
           h == WithLast(http, [LastCall EXCEPT !.state = after, !.timedOut = TRUE])
       IN  Respond(h, TimeoutAnswer.status, TextPlain, TimeoutAnswer.body,
                   IF after = "hangup" THEN "upstream" ELSE "done")
    /\ UNCHANGED <<san, program, config, requestCounter, issued, tunnel>>

StreamKinds == {"local", "normal", "redirect", "https"}

\* the response callback of a streaming forward: writeHead, then pipe
StreamResponse(status) ==
    /\ Active(StreamKinds, {"pending"})
    /\ LET h == WithLast(http, [LastCall EXCEPT !.state = "responding",
                                                !.status = status])
       IN  IF h.clientRes.headSent
           THEN http' = Attempt(h) /\ Crash
           ELSE /\ http' = [Attempt(h) EXCEPT
                               !.clientRes = WriteHead(@, status, UpstreamHeaders)]
                /\ UNCHANGED proc
    /\ UNCHANGED <<san, program, config, requestCounter, issued, tunnel>>

\* proxyRes.pipe(res) reaching the end of the upstream response
StreamEnd(body) ==
    /\ Active(StreamKinds, {"responding"})
    /\ http' = [Attempt(WithLast(http, [LastCall EXCEPT !.state = "ended"]))
                  EXCEPT !.clientRes = End(@, body), !.phase = "done"]
    /\ UNCHANGED <<san, program, config, requestCounter, issued, proc, tunnel>>

\* what the error handler of a streaming forward answers
StreamErrorAnswer(kind, msg) ==
    CASE kind = "local" ->
            [status |-> 502, headers |-> TextPlain,
             body |-> <<"Local Server Error: ", msg>>]
      [] kind = "normal" ->
            [status |-> 500, headers |-> EmptyHeaders, body |-> <<"Forward Error">>]
      [] kind = "redirect" ->
            [status |-> 500, headers |-> EmptyHeaders, body |-> <<"Proxy Error">>]
      [] OTHER ->
            [status |-> 500, headers |-> EmptyHeaders, body |-> <<"HTTPS Proxy Error">>]

\* proxyReq.on('error') of a streaming forward
StreamError(msg) ==
    /\ Active(StreamKinds, {"pending", "responding"})
    /\ msg \in ErrorsIn(LastCall.state)
    /\ LET a == StreamErrorAnswer(LastCall.kind, msg)
       IN  Respond(WithLast(http, [LastCall EXCEPT !.state = "failed", !.err = msg]),
                   a.status, a.headers, a.body, "done")
    /\ UNCHANGED <<san, program, config, requestCounter, issued, tunnel>>

\* the request handler of the mitm proxy (http.createServer callback)
mitmRequest(url, hh) ==
    /\ program = "mitm"
    /\ proc = "running"
    /\ http.phase \in {"idle", "done"}
    /\ LET h == Incoming(url, hh, RequestIdOf(0, 0))
       IN  IF h.hostname = NoHost
           THEN /\ http' = [h EXCEPT !.phase = "done"]
                /\ Crash
           ELSE IF IsIntercept(program, h.hostname)
           THEN /\ http' = [h EXCEPT !.phase = "upstream",
                                !.calls = <<NewCall("redirect",
                                    RedirectOptions(h.targetUrl.path, h.reqHeaders),
                                    [path |-> h.targetUrl.path,
                                     headers |-> h.reqHeaders, body |-> <<>>])>>]
                /\ UNCHANGED proc
           ELSE /\ http' = forwardNormalRequest(h)
                /\ UNCHANGED proc
    /\ UNCHANGED <<san, program, config, requestCounter, issued, tunnel>>

(* -------------------------- the CONNECT session ------------------------ *)
\* cIn / sIn: what has arrived on the client / server socket ("fin" and
\* "err" are events queued for the event loop); cOut / sOut: whether the
\* proxy has ended (or destroyed) its side of the socket.
IdleTunnel ==
    [phase |-> "idle", kind |-> "none", url |-> <<>>,
     requestId |-> RequestIdOf(0, 0), hostname |-> NoHost, port |-> 0,
     head |-> <<>>, clientWrites |-> <<>>, serverBytes |-> <<>>,
     cIn |-> "open", cOut |-> "open", sIn |-> "none", sOut |-> "none"]

Established == "HTTP/1.1 200 Connection Established"
BadGateway == "HTTP/1.1 502 Bad Gateway"
SslUnavailable == "HTTP/1.1 500 SSL Interception Not Available"

Quiet(t) == t.cIn \notin {"fin", "err"} /\ t.sIn \notin {"fin", "err"}

TunnelFree == tunnel.phase \in {"idle", "closed"} /\ Quiet(tunnel)

\* net.connect(port, hostname, ...)
NetConnect(t, kind, port) ==
    [t EXCEPT !.phase = "connecting", !.kind = kind, !.port = port,
              !.sIn = "connecting", !.sOut = "open"]

\* the session is over once the proxy has ended both sockets
Settle(t) ==
    IF t.cOut = "ended" /\ t.sOut \in {"ended", "none"} /\ t.phase # "idle"
    THEN [t EXCEPT !.phase = "closed"]
    ELSE t

\* handleConnect (pass-through proxy)
handleConnect(url, head, now) ==
    /\ program = "passthrough"
    /\ proc = "running"
    /\ TunnelFree
    /\ requestCounter < MaxRequests
    /\ requestCounter' = requestCounter + 1
    /\ issued' = Append(issued, RequestIdOf(requestCounter + 1, now))
    /\ LET t == [IdleTunnel EXCEPT !.url = url, !.head = head,
                     !.requestId = RequestIdOf(requestCounter + 1, now),
                     !.hostname = SplitColon(url).hostname]
           targetPort == ConnectPort(SplitColon(url).port)
       IN  IF IsIntercept(program, t.hostname)
           THEN tunnel' = NetConnect(t, "intercept", RealPort)
           ELSE tunnel' = NetConnect(t, "passthrough", targetPort)
    /\ UNCHANGED <<san, program, config, proc, http>>

\* a mitm proxy that tunnels opaquely what it cannot terminate
RefuseConnectOpaque(t) == NetConnect(t, "passthrough", DefaultHttpsPort)

\* the mitm proxy refusing a CONNECT it cannot terminate
RefuseConnect(t) ==
    [t EXCEPT !.phase = "closed", !.kind = "refused",
              !.clientWrites = Append(@, SslUnavailable),
              !.cOut = "ended"]

\* proxy.on('connect') of the mitm proxy
mitmConnect(url, head) ==
    /\ program = "mitm"
    /\ proc = "running"
    /\ TunnelFree
    /\ LET t == [IdleTunnel EXCEPT !.url = url, !.head = head,
                     !.hostname = SplitColon(url).hostname]
           port == ConnectPort(SplitColon(url).port)
       IN  IF IsIntercept(program, t.hostname)
           THEN IF config.sslOptions
                THEN tunnel' = [t EXCEPT !.phase = "tls", !.kind = "tls",
                                   !.port = port,
                                   !.clientWrites = Append(@, Established)]
                ELSE tunnel' = RefuseConnect(t)
           ELSE tunnel' = NetConnect(t, "passthrough", port)
    /\ UNCHANGED <<san, program, config, requestCounter, issued, proc, http>>

\* the bytes the connect callback writes to the server socket
HeadWritten(t) == IF t.kind = "passthrough" THEN t.head ELSE <<>>

\* the callback of net.connect: 200, (head), the two pipes
ConnectOk ==
    /\ Alive
    /\ tunnel.phase = "connecting"
    /\ tunnel.sIn = "connecting"
    /\ tunnel' = [tunnel EXCEPT !.phase = "established",
                                !.sIn = "open",
                                !.clientWrites = Append(@, Established),
                                !.serverBytes = @ \o HeadWritten(tunnel)]
    /\ UNCHANGED <<san, program, config, requestCounter, issued, proc, http>>

\* the network: the server socket fails (refused, unreachable, reset).  The
\* event loop runs the handler of one socket event before the next arrives.
ServerFail ==
    /\ Alive
    /\ tunnel.phase \in {"connecting", "established"}
    /\ tunnel.sIn \in {"connecting", "open"}
    /\ Quiet(tunnel)
    /\ tunnel' = [tunnel EXCEPT !.sIn = "err"]
    /\ UNCHANGED <<san, program, config, requestCounter, issued, proc, http>>

\* what serverSocket.on('error') writes to the client before ending it
ErrorLine(kind) == IF kind = "intercept" THEN <<BadGateway>> ELSE <<>>

\* an error handler of the plain tunnel that forgets clientSocket.end()
ErrorEndsClientInterceptOnly(kind) == kind = "intercept"

\* whether serverSocket.on('error') ends the client socket
ErrorEndsClient(kind) == kind \in {"intercept", "passthrough"}

\* serverSocket.on('error'); a write on an ended client socket makes the
\* client socket emit 'error', which nothing listens to
ServerError ==
    /\ Alive
    /\ tunnel.sIn = "err"
    /\ LET t == [tunnel EXCEPT !.sIn = "done", !.sOut = "ended"]
       IN  IF ErrorLine(t.kind) # <<>> /\ t.cOut = "ended"
           THEN tunnel' = Settle(t) /\ Crash
           ELSE /\ tunnel' = Settle([t EXCEPT
                        !.clientWrites = @ \o ErrorLine(t.kind),
                        !.cOut = IF ErrorEndsClient(t.kind) THEN "ended" ELSE @])
                /\ UNCHANGED proc
    /\ UNCHANGED <<san, program, config, requestCounter, issued, http>>

\* the two pipes of the session are set up (the tunnel was established)
Piped(t) ==
    /\ t.kind \in {"intercept", "passthrough"}
    /\ t.clientWrites # <<>>
    /\ t.clientWrites[1] = Established

\* the network: the client half-closes / the server half-closes; the 'end'
\* of the client socket is seen through the pipe only
ClientFin ==
    /\ Alive
    /\ tunnel.phase = "established"
    /\ Piped(tunnel)
    /\ tunnel.cIn = "open"
    /\ Quiet(tunnel)
    /\ tunnel' = [tunnel EXCEPT !.cIn = "fin"]
    /\ UNCHANGED <<san, program, config, requestCounter, issued, proc, http>>

ServerFin ==
    /\ Alive
    /\ tunnel.phase = "established"
    /\ tunnel.sIn = "open"
    /\ Quiet(tunnel)
    /\ tunnel' = [tunnel EXCEPT !.sIn = "fin"]
    /\ UNCHANGED <<san, program, config, requestCounter, issued, proc, http>>

\* clientSocket.pipe(serverSocket) at the client's 'end': serverSocket.end()
ClientEnd ==
    /\ Alive
    /\ Piped(tunnel)
    /\ tunnel.cIn = "fin"
    /\ tunnel' = Settle([tunnel EXCEPT !.cIn = "done", !.sOut = "ended"])
    /\ UNCHANGED <<san, program, config, requestCounter, issued, proc, http>>

\* serverSocket.pipe(clientSocket) at the server's 'end': clientSocket.end();
\* the server socket (allowHalfOpen false) ends itself
ServerEnd ==
    /\ Alive
    /\ tunnel.sIn = "fin"
    /\ tunnel' = Settle([tunnel EXCEPT !.sIn = "done", !.sOut = "ended",
                                       !.cOut = "ended"])
    /\ UNCHANGED <<san, program, config, requestCounter, issued, proc, http>>

\* the network: the client socket fails (reset)
ClientFail ==
    /\ Alive
    /\ tunnel.phase \in {"connecting", "established"}
    /\ tunnel.cIn = "open"
    /\ Quiet(tunnel)
    /\ tunnel' = [tunnel EXCEPT !.cIn = "err"]
    /\ UNCHANGED <<san, program, config, requestCounter, issued, proc, http>>

\* 'error' on the client socket: the http server took its listeners off the
\* socket before 'connect', and the handlers add none
ClientError ==
    /\ Alive
    /\ tunnel.cIn = "err"
    /\ tunnel' = [tunnel EXCEPT !.cIn = "done"]
    /\ Crash
    /\ UNCHANGED <<san, program, config, requestCounter, issued, http>>

\* a request arriving inside the TLS session the mitm proxy terminates
mitmHttpsRequest(hh) ==
    /\ program = "mitm"
    /\ Alive
    /\ tunnel.phase = "tls"
    /\ http.phase \in {"idle", "done"}
    /\ LET h == Incoming(<<"/x">>, hh, RequestIdOf(0, 0))
       IN  http' = [h EXCEPT !.phase = "upstream",
                       !.hostname = tunnel.hostname,
                       !.calls = <<NewCall("https",
                                     RedirectOptions(h.url, h.reqHeaders),
                                     [path |-> h.url, headers |-> h.reqHeaders,
                                      body |-> <<>>])>>]
    /\ UNCHANGED <<san, program, config, requestCounter, issued, proc, tunnel>>

\* the TLS session ends (the https server owns the socket and closes it)
TlsClose ==
    /\ Alive
    /\ tunnel.phase = "tls"
    /\ tunnel' = [tunnel EXCEPT !.phase = "closed", !.cIn = "done",
                                !.cOut = "ended"]
    /\ UNCHANGED <<san, program, config, requestCounter, issued, proc, http>>

(* ------------------------------ shutdown ------------------------------- *)
\* the client connections the server still holds: that of an HTTP request
\* whose response is not ended, that of a CONNECT session not closed
ConnectionsOpen ==
    \/ /\ http.phase \in {"collecting", "upstream"}
       /\ http.clientAlive
       /\ ~http.clientRes.ended
    \/ tunnel.phase \notin {"idle", "closed"}

\* SIGINT: the pass-through proxy stops listening, proxy.close(callback); the
\* mitm proxy registers no handler and the signal terminates it
Interrupt ==
    /\ proc = "running"
    /\ proc' = IF program = "passthrough" THEN "closing" ELSE "sigint"
    /\ UNCHANGED <<san, program, config, requestCounter, issued, http, tunnel>>

\* the callback of proxy.close: the server has no connection left,
\* process.exit(0)
ProxyClosed ==
    /\ proc = "closing"
    /\ ~ConnectionsOpen
    /\ proc' = "exit0"
    /\ UNCHANGED <<san, program, config, requestCounter, issued, http, tunnel>>

(* ------------------- the sanitizers, applied repeatedly ---------------- *)
\* the headers and the body of a record before sanitization
Unsanitized(headers, body) ==
    [applied |-> 0, headers |-> headers, body |-> JsString(body),
     headersBefore |-> headers, bodyBefore |-> JsString(body)]

\* the header sets a record can hold
HeaderSets ==
    { [name \in names |-> <<"v">>] :
        names \in SUBSET {"host", "authorization", "cookie", "x-session-token"} }

\* the bodies a record can hold: '', JSON texts, short and long plain text
LoggedBodies ==
    JsonTexts \cup
    { <<>>, <<"OK">>, <<"a x100", "b x100">>,
      <<"a x100", "b x100", "...">>,
      <<"password=p x100", "a x100", "b x100">> }

\* sanitizeHeaders and sanitizeBody applied to what they returned before
Sanitize ==
    /\ san.applied < MaxApplications
    /\ san' = [applied |-> san.applied + 1,
               headers |-> sanitizeHeaders(san.headers),
               body |-> sanitizeBody(san.body),
               headersBefore |-> san.headers,
               bodyBefore |-> san.body]
    /\ UNCHANGED <<program, config, requestCounter, issued, proc, http, tunnel>>

(* ---------------------------- specification ---------------------------- *)
Configs ==
    [FALLBACK_TO_LOCAL : BOOLEAN, ENABLE_MODIFICATIONS : BOOLEAN,
     sslOptions : BOOLEAN]

Init ==
    /\ program \in {"mitm", "passthrough"}
    /\ config \in Configs
    /\ program = "mitm" =>
            ~config.FALLBACK_TO_LOCAL /\ config.ENABLE_MODIFICATIONS
    /\ program = "passthrough" => ~config.sslOptions
    /\ requestCounter = 0
    /\ issued = <<>>
    /\ Alive
    /\ http = IdleHttp
    /\ tunnel = IdleTunnel
    /\ san = Unsanitized(EmptyHeaders, <<>>)

HttpNext ==
    \/ \E r \in HttpRequests, now \in Timestamps : handleProxyRequest(r[1], r[2], now)
    \/ \E r \in HttpRequests : mitmRequest(r[1], r[2])
    \/ \E chunk \in Chunks(RequestBodies) : ReqData(chunk)
    \/ ReqEnd
    \/ ReqError
    \/ \E status \in UpstreamStatuses : RealResponse(status)
    \/ \E chunk \in Chunks(ResponseBodies) : RealData(chunk)
    \/ RealEnd
    \/ \E msg \in ConnectErrors \cup {ResetError, HangUp} : RealError(msg)
    \/ RealTimeout
    \/ \E status \in UpstreamStatuses : StreamResponse(status)
    \/ \E body \in StreamBodies : StreamEnd(body)
    \/ \E msg \in ConnectErrors \cup {ResetError} : StreamError(msg)

TunnelNext ==
    \/ \E url \in ConnectUrls, head \in Heads, now \in Timestamps :
            handleConnect(url, head, now)
    \/ \E url \in ConnectUrls, head \in Heads : mitmConnect(url, head)
    \/ ConnectOk
    \/ ServerFail
    \/ ServerError
    \/ ClientFin
    \/ ServerFin
    \/ ClientEnd
    \/ ServerEnd
    \/ ClientFail
    \/ ClientError
    \/ \E hh \in {D_api, ExampleHost} : mitmHttpsRequest(hh)
    \/ TlsClose

Next == HttpNext \/ TunnelNext

Spec == Init /\ [][Next]_vars

\* an upstream call in flight progresses: the upstream answers or fails, the
\* timer of the real-server call fires, the event loop runs the handler
HttpProgress ==
    \/ \E chunk \in Chunks(RequestBodies) : ReqData(chunk)
    \/ ReqEnd
    \/ \E status \in UpstreamStatuses : RealResponse(status)
    \/ \E chunk \in Chunks(ResponseBodies) : RealData(chunk)
    \/ RealEnd
    \/ \E msg \in ConnectErrors \cup {ResetError, HangUp} : RealError(msg)
    \/ RealTimeout
    \/ \E status \in UpstreamStatuses : StreamResponse(status)
    \/ \E body \in StreamBodies : StreamEnd(body)
    \/ \E msg \in ConnectErrors \cup {ResetError} : StreamError(msg)

ShutdownNext == HttpNext \/ Interrupt \/ ProxyClosed

\* the HTTP requests and the interrupt, with every request in flight
\* completing and the close callback running
ShutdownLive ==
    Init /\ [][ShutdownNext]_vars /\ WF_vars(HttpProgress) /\ WF_vars(ProxyClosed)

SanitizeInit ==
    /\ program = "passthrough"
    /\ config = [FALLBACK_TO_LOCAL |-> FALSE, ENABLE_MODIFICATIONS |-> TRUE,
                 sslOptions |-> FALSE]
    /\ requestCounter = 0
    /\ issued = <<>>
    /\ Alive
    /\ http = IdleHttp
    /\ tunnel = IdleTunnel
    /\ \E headers \in HeaderSets, body \in LoggedBodies :
          san = Unsanitized(headers, body)

\* the sanitizers of the logger on their own, over all records
SanitizeSpec == SanitizeInit /\ [][Sanitize]_vars

\* the event loop runs the handler of every queued socket event
TunnelFairness ==
    /\ WF_vars(ServerError)
    /\ WF_vars(ClientEnd)
    /\ WF_vars(ServerEnd)
    /\ WF_vars(ClientError)

\* the CONNECT sessions alone, with the event loop's fairness
TunnelLive == Init /\ [][TunnelNext]_vars /\ TunnelFairness

(* ------------------------------- claims -------------------------------- *)
Calls == {http.calls[i] : i \in 1..Len(http.calls)}

HttpSeen == http.phase # "idle" /\ http.hostname # NoHost

ConnectSeen == tunnel.phase # "idle"

\* the first rule of INTERCEPT_DOMAINS that hostname contains
FirstMatch(prog, hostname) ==
    INTERCEPT_DOMAINS(prog)[
        CHOOSE k \in 1..Len(INTERCEPT_DOMAINS(prog)) :
            /\ Includes(hostname, INTERCEPT_DOMAINS(prog)[k])
            /\ \A j \in 1..(k - 1) : ~Includes(hostname, INTERCEPT_DOMAINS(prog)[j])]

\* C1: a hostname that contains no intercept domain takes the PASSTHROUGH
\* path, and the one upstream connection goes to the host and port parsed
\* from the request line (80 by default for HTTP, 443 for CONNECT), not to
\* the local server and not to a registry target.
C1_PassthroughToOriginalTarget ==
    program = "passthrough" =>
    /\ (HttpSeen /\ ~IsIntercept(program, http.hostname)) =>
          /\ Len(http.calls) = 1
          /\ http.calls[1].kind = "normal"
          /\ http.calls[1].hostname = http.targetUrl.hostname
          /\ http.calls[1].port =
                (IF http.targetUrl.port = Null THEN 80
                 ELSE ParseInt(http.targetUrl.port))
          /\ http.calls[1].port \notin {LOCAL_SERVER_PORT, RealPort}
    /\ (ConnectSeen /\ ~IsIntercept(program, tunnel.hostname)) =>
          /\ tunnel.kind = "passthrough"
          /\ tunnel.hostname = SplitColon(tunnel.url).hostname
          /\ tunnel.port =
                (IF SplitColon(tunnel.url).port = Null THEN 443
                 ELSE ParseInt(SplitColon(tunnel.url).port))

\* C2: a hostname that contains a rule's domain string is INTERCEPT with
\* the target registered for the first such rule, and is forwarded to it:
\* no matching hostname ends in an error path.
C2_InterceptResolvesRuleTarget ==
    (program = "passthrough" /\ HttpSeen /\ IsIntercept(program, http.hostname)) =>
       /\ http.serverConfig = SERVER_ENDPOINTS(FirstMatch(program, http.hostname))
       /\ http.serverConfig # NoConfig
       /\ \A c \in Calls : c.kind = "real" =>
             /\ c.hostname = http.serverConfig.host
             /\ c.port = http.serverConfig.port

\* C3: on every INTERCEPT forward (real server, local redirect, fallback
\* hop) the Host header sent upstream is "<host>:<port>" of the connection
\* that was opened.
C3_HostHeaderIsTarget ==
    \A c \in Calls :
        c.kind \in {"real", "local", "redirect", "https"} =>
            HeaderOf(c.headers, "host", NoHost) = HostPort(c.hostname, c.port)

\* C3 witness: a fallback hop of a request whose client sent another Host
\* header and whose headers the request hook extended
C3_Witness ==
    /\ Len(http.calls) = 2
    /\ http.calls[2].kind = "local"
    /\ HeaderOf(http.reqHeaders, "host", NoHost) = ExampleHost
    /\ "X-Proxy-Request-ID" \in DOMAIN http.calls[2].headers
    /\ HeaderOf(http.calls[2].headers, "host", NoHost)
          = <<"127.0.0.1", ":", "49767">>

\* C4: with the fallback disabled no request goes to the local server, and a
\* connect failure of the real-server call gives the (connected) client a
\* 502 whose body holds the error message.
C4_FailFast502 ==
    (program = "passthrough" /\ ~config.FALLBACK_TO_LOCAL) =>
       /\ \A c \in Calls : c.kind # "local"
       /\ \A c \in Calls :
             (c.kind = "real" /\ c.state = "failed" /\ c.err \in ConnectErrors
                 /\ http.clientAlive) =>
                /\ http.clientRes.status = 502
                /\ http.clientRes.ended
                /\ http.clientRes.body = <<"Bad Gateway: ", c.err>>

C4_Witness ==
    /\ ~config.FALLBACK_TO_LOCAL
    /\ http.clientAlive
    /\ Len(http.calls) = 1
    /\ http.calls[1].kind = "real"
    /\ http.calls[1].state = "failed"
    /\ http.calls[1].err = "connect ECONNREFUSED"
    /\ http.clientRes.status = 502

C6_Timeout504 ==
    (program = "passthrough" /\ ~config.FALLBACK_TO_LOCAL /\ http.clientAlive) =>
       \A c \in Calls :
          /\ (c.kind = "real" /\ c.timedOut) =>
                /\ c.state \in {"hangup", "aborted", "failed"}
                /\ http.clientRes.status = 504
                /\ http.clientRes.body = <<"Gateway Timeout">>
                /\ http.clientRes.ended
                /\ Len(http.calls) = 1
          /\ (c.kind = "real" /\ ~c.timedOut /\ c.state = "failed"
                 /\ c.err \in ConnectErrors) =>
                http.clientRes.status = 502

\* C6 witness: the call timed out, was destroyed, and the 'error' that the
\* destroy raised has been handled as well
C6_Witness ==
    /\ ~config.FALLBACK_TO_LOCAL
    /\ http.clientAlive
    /\ Len(http.calls) = 1
    /\ http.calls[1].timedOut
    /\ http.calls[1].state = "failed"
    /\ http.calls[1].err = HangUp
    /\ http.clientRes.status = 504

\* C7: without certificate and key, a CONNECT to an intercepted domain is
\* answered by an error status line and the client socket is ended: no 200,
\* no upstream connection, no byte relayed, no request forwarded.
C7_NoCertificateRefuses ==
    (program = "mitm" /\ ~config.sslOptions /\ ConnectSeen
        /\ IsIntercept(program, tunnel.hostname)) =>
       /\ tunnel.clientWrites = <<SslUnavailable>>
       /\ tunnel.cOut = "ended"
       /\ tunnel.sIn = "none"
       /\ tunnel.sOut = "none"
       /\ tunnel.serverBytes = <<>>
       /\ \A c \in Calls : c.kind # "https"

C7_Witness ==
    /\ program = "mitm"
    /\ ~config.sslOptions
    /\ tunnel.hostname = <<"store", ".", "2ksports.com">>
    /\ tunnel.head = <<"client-hello">>
    /\ tunnel.phase = "closed"
    /\ tunnel.clientWrites = <<SslUnavailable>>

\* C8: when the connection to the target of a CONNECT fails before the
\* tunnel is established, the client socket is closed only after a 5xx
\* status line was written to it.
C8_FailedConnectHasStatusLine ==
    (tunnel.kind \in {"intercept", "passthrough"} /\ tunnel.sIn = "done"
        /\ tunnel.cOut = "ended"
        /\ \A i \in 1..Len(tunnel.clientWrites) : tunnel.clientWrites[i] # Established) =>
       /\ tunnel.clientWrites # <<>>
       /\ tunnel.clientWrites[Len(tunnel.clientWrites)] \in {BadGateway, SslUnavailable}

\* the tunnel of the session was established (200 written, pipes set up)
TunnelUp == Piped(tunnel)

\* C9: once one socket of an established tunnel has closed or failed, the
\* other socket is eventually closed (ended by the proxy, or closed with
\* the process).
C9_NoHalfOpenTunnel ==
    /\ [](TunnelUp /\ tunnel.cIn # "open"
            => <>(tunnel.sOut = "ended" \/ proc = "exit1"))
    /\ [](TunnelUp /\ tunnel.sIn \in {"fin", "err", "done"}
            => <>(tunnel.cOut = "ended" \/ proc = "exit1"))

\* C9 witness: the server side of an established intercept tunnel failed
\* and the client socket was ended
C9_Witness ==
    /\ TunnelUp
    /\ proc = "running"
    /\ tunnel.sIn = "done"
    /\ tunnel.clientWrites = <<Established, BadGateway>>
    /\ tunnel.cOut = "ended"

\* C10: every modifyRequest / modifyResponse tags the headers with the id of
\* the request, with modifications enabled or not: every real-server call
\* carries X-Proxy-Request-ID and every buffered response written to the
\* client carries X-Proxy-Response-ID.
C10_CorrelationIdAlways ==
    program = "passthrough" =>
       \A c \in Calls : c.kind = "real" =>
          /\ HeaderOf(c.headers, "X-Proxy-Request-ID", <<>>) = http.requestId
          /\ (c.state = "ended" /\ http.clientAlive) =>
                HeaderOf(http.clientRes.headers, "X-Proxy-Response-ID", <<>>)
                    = http.requestId

\* C11: the ids generateRequestId has returned are pairwise distinct and
\* their counter components strictly increase in the order of the calls,
\* whatever the interleaving of HTTP and CONNECT requests; the id of every
\* request in flight is the one that was issued for it.
C11_RequestIdsUniqueMonotone ==
    /\ \A i \in 1..Len(issued) : \A j \in 1..Len(issued) :
          i < j => (issued[i] # issued[j] /\ issued[i][2] < issued[j][2])
    /\ Len(issued) = requestCounter
    /\ (program = "passthrough" /\ http.phase # "idle") =>
          \E i \in 1..Len(issued) : issued[i] = http.requestId
    /\ (program = "passthrough" /\ tunnel.phase # "idle") =>
          \E i \in 1..Len(issued) : issued[i] = tunnel.requestId

\* C11 witness: a CONNECT session and an HTTP request in flight together,
\* their ids taken in the same millisecond
C11_Witness ==
    /\ Len(issued) = 2
    /\ tunnel.phase = "established"
    /\ http.phase = "upstream"
    /\ tunnel.requestId = issued[1]
    /\ http.requestId = issued[2]
    /\ issued[1][3] = issued[2][3]

\* a value that carries a credential: an object with a password, token or
\* sessionToken at any depth, a text with a password in it
BearsCredential(v) ==
    \/ \E path \in DOMAIN v.o : \E i \in 1..Len(path) : path[i] \in SensitiveKeys
    \/ \E i \in 1..Len(v.s) : v.s[i] \in {LoginBody[1], "password=p x100"}

\* C12: no record handed to the log holds an authorization, cookie or
\* session-token header, or a password, token or sessionToken of the body,
\* whatever the shape of the body.
C12_NoCredentialLogged ==
    \A i \in 1..Len(http.logged) :
        /\ (DOMAIN http.logged[i].headers) \cap SensitiveHeaders = {}
        /\ ~BearsCredential(http.logged[i].body)

\* C13: sanitizing a record that was sanitized changes nothing: the headers
\* and the body after the second application are those after the first.
C13_SanitizeIdempotent ==
    san.applied >= 2 =>
        /\ san.headers = san.headersBefore
        /\ san.body = san.bodyBefore

\* C14: once the client of a request has gone while an upstream call was
\* made for it, no upstream call of the request is still in flight and no
\* handler has reached a write on the client's response.
C14_ClientCloseAbortsUpstream ==
    (~http.clientAlive /\ http.calls # <<>>) =>
        /\ \A c \in Calls : c.state \notin {"pending", "responding"}
        /\ ~http.writesAfterClose

\* a step in which a handler of an upstream failure runs: the 'error' or
\* 'timeout' handler of the last upstream call of a request whose client is
\* there, or the 'error' handler of the server socket of a CONNECT session
UpstreamFailureHandled ==
    \/ /\ http.clientAlive
       /\ http.calls # <<>>
       /\ Len(http'.calls) >= Len(http.calls)
       /\ http.calls[Len(http.calls)].state \in {"pending", "responding", "hangup"}
       /\ http'.calls[Len(http.calls)].state \in {"failed", "hangup", "aborted"}
       /\ http'.calls[Len(http.calls)].state # http.calls[Len(http.calls)].state
    \/ /\ tunnel.sIn = "err"
       /\ tunnel'.sIn = "done"

\* C15: no handler of an upstream failure (connect error, timeout, error
\* after the response or the tunnel has started) ends the process: every such
\* step leaves the process running, and on the HTTP path it leaves a client
\* response that is ended or a fallback call that is issued.
C15_NoUnhandledUpstreamFault ==
    [][(program = "passthrough" /\ UpstreamFailureHandled) =>
          /\ proc' = proc
          /\ (http' # http) =>
                (http'.clientRes.ended \/ Len(http'.calls) > Len(http.calls))]_vars

\* a request the proxy still works on for a client that waits
InFlight ==
    /\ http.phase \in {"collecting", "upstream"}
    /\ http.clientAlive
    /\ ~http.clientRes.ended

\* C16: after the interrupt the pass-through proxy takes no new request,
\* the process ends with no other status than 0 and eventually exits with
\* status 0, and it does not exit with status 0 while a request is in flight.
C16_GracefulShutdown ==
    /\ [][proc = "closing" => requestCounter' = requestCounter]_vars
    /\ [][proc = "closing" => proc' \in {"closing", "exit0"}]_vars
    /\ [](proc = "exit0" => ~InFlight)
    /\ [](proc = "closing" => <>(proc = "exit0"))

\* C17: on the buffered path (an intercepted HTTP request of the
\* pass-through proxy) no upstream call exists while the request body is
\* collected, the call to the real server carries the whole accumulated
\* body, and as long as that call has neither ended, failed nor timed out
\* nothing is written to the response of the waiting client; what is written
\* at its end is made from the whole accumulated response body.
C17_BufferedOrdering ==
    (program = "passthrough" /\ http.serverConfig # NoConfig) =>
       /\ http.phase = "collecting" => http.calls = <<>>
       /\ \A c \in Calls : c.kind = "real" =>
             /\ c.args.body = http.requestBody
             /\ http.requestBody \in RequestBodies
             /\ (c.state \in {"pending", "responding"} /\ http.clientAlive) =>
                   http.clientRes = FreshResponse
             /\ (c.state = "ended" /\ http.clientAlive) =>
                   /\ c.responseBody \in ResponseBodies
                   /\ http.clientRes.ended
                   /\ http.clientRes.body =
                         modifyResponse(http.requestId, c.status,
                                        UpstreamHeaders, c.responseBody).body

\* C17 witness: the request body came in one chunk, the response is half
\* received, nothing is written yet
C17_Witness ==
    /\ program = "passthrough"
    /\ http.phase = "upstream"
    /\ http.requestBody = LoginBody
    /\ http.clientAlive
    /\ LastCall.kind = "real"
    /\ LastCall.state = "responding"
    /\ LastCall.responseBody = <<"O">>
    /\ http.clientRes = FreshResponse

\* C18: once the tunnel of a CONNECT session is established, for an
\* intercepted host as for any other, the bytes written to the server socket
\* are the bytes the client sent after its CONNECT request, those that came
\* with the request (head) included.  (The sessions of the model send no
\* bytes after the head.)
C18_HeadRelayed ==
    (program = "passthrough" /\ Piped(tunnel)) =>
        tunnel.serverBytes = tunnel.head

StatusLines == {Established, BadGateway, SslUnavailable}

\* C19: in a CONNECT session of the pass-through proxy the 200 line is
\* written only when the connection to the target is open and before any
\* byte is relayed, and it is the last status line of the session: an error
\* status line is written only when no 200 was.
C19_NoStatusLineIntoTunnel ==
    (program = "passthrough" /\ ConnectSeen) =>
       /\ (\E i \in 1..Len(tunnel.clientWrites) : tunnel.clientWrites[i] = Established)
             => (tunnel.clientWrites[1] = Established /\ tunnel.sIn # "connecting")
       /\ tunnel.serverBytes # <<>> =>
             (tunnel.clientWrites # <<>> /\ tunnel.clientWrites[1] = Established)
       /\ \A i \in 1..Len(tunnel.clientWrites) :
             (i > 1 /\ tunnel.clientWrites[1] = Established) =>
                 tunnel.clientWrites[i] \notin StatusLines

\* C20: after a successful buffered forward through the response hook
\* (modifications enabled, none written), the waiting client has the status
\* and the body the real server sent, for a JSON body as for any other, and
\* the real server's headers with the correlation header added.
C20_ResponseHookIdentity ==
    (program = "passthrough" /\ config.ENABLE_MODIFICATIONS /\ http.clientAlive) =>
       \A c \in Calls : (c.kind = "real" /\ c.state = "ended") =>
          /\ http.clientRes.status = c.status
          /\ http.clientRes.body = c.responseBody
          /\ http.clientRes.headers =
                WithHeader(UpstreamHeaders, "X-Proxy-Response-ID", http.requestId)

\* a step of the request in flight in which a handler calls writeHead on a
\* response whose head was sent: the call throws, the step ends the process
WritesHeadAgain ==
    /\ requestCounter' = requestCounter
    /\ http' # http
    /\ http.clientRes.headSent
    /\ proc # "exit1"
    /\ proc' = "exit1"

\* C21: for an intercepted request of handleProxyRequest, in whatever order
\* the upstream 'timeout', 'error' and 'end' events and the request's 'error'
\* event arrive, with fallback enabled or disabled, no handler calls
\* writeHead on a response whose head was sent, and once the response is
\* ended its head and body no longer change.
C21_HeadWrittenOnce ==
    [][(program = "passthrough" /\ http.serverConfig # NoConfig
           /\ requestCounter' = requestCounter) =>
          /\ ~WritesHeadAgain
          /\ http.clientRes.ended => http'.clientRes = http.clientRes]_vars

\* the request in flight matches an intercept domain by substring and its
\* hostname is no key of SERVER_ENDPOINTS
UnknownServer ==
    /\ program = "passthrough"
    /\ HttpSeen
    /\ IsIntercept(program, http.hostname)
    /\ http.hostname \notin EndpointKeys

\* C22: a request whose hostname contains an intercept domain without being
\* a key of SERVER_ENDPOINTS is answered 502 'Bad Gateway: Unknown 2K
\* server', complete and ended, and no upstream call is issued for it: not
\* to the real server, not to the local server, not to its original target.
C22_UnknownServer502 ==
    UnknownServer =>
       /\ http.calls = <<>>
       /\ http.phase = "done"
       /\ http.serverConfig = NoConfig
       /\ http.clientAlive
       /\ http.clientRes = End(WriteHead(FreshResponse, 502, TextPlain),
                               <<"Bad Gateway: Unknown 2K server">>)

\* the 502 is with the client, for a hostname that holds a key and a port
\* and for one that holds a key after a prefix
C22_Witness ==
    /\ UnknownServer
    /\ http.hostname \in {D_api \o <<":", "80">>, <<"cdn", ".">> \o D_api}
    /\ http.clientRes.status = 502
    /\ http.clientRes.ended
    /\ http.calls = <<>>

====
